---- MODULE Spec2Model ----
(***************************************************************************)
(* PDF decryption service (src/main.py): the two POST handlers of the      *)
(* FastAPI application, decrypt_pdf and check_pdf_encryption, as step      *)
(* machines over the calls they make to the PDF codec (PyPDF2) and to the  *)
(* transport encoding (base64).                                            *)
(***************************************************************************)
EXTENDS Integers, Sequences, FiniteSets, TLC

(***************************************************************************)
(* Bounds of the model.                                                    *)
(***************************************************************************)
\* longest uploaded byte buffer
MaxLen == 3
\* most pages in a document
MaxPages == 2
\* request slots served concurrently in SpecConc
NumRequests == 2

\* HTTP status codes (200 is FastAPI's status for a returned dict)
StatusOk == 200
StatusBadRequest == 400
StatusServerError == 500
\* Python's None in the page_count field of /check-encryption
None == -1

\* byte values uploads are built from: all bits clear, all bits set, mixed
ByteVals == {0, 77, 255}
Passwords == {"alpha", "beta"}
Filenames == {"a.pdf"}

Requests == 1 .. NumRequests

RECURSIVE SeqsUpTo(_, _)
\* every sequence over S of length at most n
SeqsUpTo(S, n) ==
    IF n = 0 THEN {<<>>}
    ELSE LET shorter == SeqsUpTo(S, n - 1)
         IN  shorter \cup {Append(s, x) : s \in {t \in shorter : Len(t) = n - 1}, x \in S}

Buffers == SeqsUpTo(ByteVals, MaxLen)

(***************************************************************************)
(* The transport encoding: base64.b64encode(...).decode('utf-8') and the   *)
(* decoding a caller applies to decrypted_base64.  Text is a sequence of   *)
(* one-character strings.                                                  *)
(***************************************************************************)
Alphabet ==
    << "A", "B", "C", "D", "E", "F", "G", "H", "I", "J", "K", "L", "M",
       "N", "O", "P", "Q", "R", "S", "T", "U", "V", "W", "X", "Y", "Z",
       "a", "b", "c", "d", "e", "f", "g", "h", "i", "j", "k", "l", "m",
       "n", "o", "p", "q", "r", "s", "t", "u", "v", "w", "x", "y", "z",
       "0", "1", "2", "3", "4", "5", "6", "7", "8", "9", "+", "/" >>

Pad == "="

\* the character of a 6-bit value
Sextet(v) == Alphabet[v + 1]

\* the 6-bit value of a character of the alphabet
SextetOf(c) == CHOOSE v \in 0 .. 63 : Alphabet[v + 1] = c

RECURSIVE B64EncodeDropsTail(_)
\* a broken encoder: the final partial group of 1 or 2 bytes is dropped
B64EncodeDropsTail(b) ==
    IF Len(b) < 3 THEN <<>>
    ELSE << Sextet(b[1] \div 4),
            Sextet((b[1] % 4) * 16 + b[2] \div 16),
            Sextet((b[2] % 16) * 4 + b[3] \div 64),
            Sextet(b[3] % 64) >> \o B64EncodeDropsTail(SubSeq(b, 4, Len(b)))

RECURSIVE B64Encode(_)
\* base64.b64encode(b).decode('utf-8'): 3 bytes -> 4 characters, "=" padded
B64Encode(b) ==
    IF Len(b) = 0 THEN <<>>
    ELSE IF Len(b) = 1 THEN
        << Sextet(b[1] \div 4), Sextet((b[1] % 4) * 16), Pad, Pad >>
    ELSE IF Len(b) = 2 THEN
        << Sextet(b[1] \div 4),
           Sextet((b[1] % 4) * 16 + b[2] \div 16),
           Sextet((b[2] % 16) * 4),
           Pad >>
    ELSE << Sextet(b[1] \div 4),
            Sextet((b[1] % 4) * 16 + b[2] \div 16),
            Sextet((b[2] % 16) * 4 + b[3] \div 64),
            Sextet(b[3] % 64) >> \o B64Encode(SubSeq(b, 4, Len(b)))

RECURSIVE B64Decode(_)
\* base64 decoding of padded text: 4 characters -> 3, 2 or 1 bytes
B64Decode(t) ==
    IF Len(t) < 4 THEN <<>>
    ELSE LET s1 == SextetOf(t[1])
             s2 == SextetOf(t[2])
             rest == SubSeq(t, 5, Len(t))
         IN  IF t[3] = Pad THEN << s1 * 4 + s2 \div 16 >>
             ELSE IF t[4] = Pad THEN
                 << s1 * 4 + s2 \div 16,
                    (s2 % 16) * 16 + SextetOf(t[3]) \div 4 >>
             ELSE << s1 * 4 + s2 \div 16,
                     (s2 % 16) * 16 + SextetOf(t[3]) \div 4,
                     (SextetOf(t[3]) % 4) * 64 + SextetOf(t[4]) >>
                  \o B64Decode(rest)

(***************************************************************************)
(* Uploaded files and what the PDF codec finds in them.  PyPDF2 is a       *)
(* function of the uploaded bytes; the model carries the structure it      *)
(* finds (doc) beside the bytes: whether the document is encrypted, its    *)
(* pages, the password it opens with, and the codec call that raises on    *)
(* it ("none" for a well-formed PDF).                                      *)
(***************************************************************************)
CodecCalls == {"parse", "is_encrypted", "pages", "decrypt", "add_page", "write"}
Faults == CodecCalls \cup {"none"}

PageLists == {[i \in 1 .. n |-> i] : n \in 0 .. MaxPages}

Docs ==
    {[fault |-> f, encrypted |-> e, pages |-> p, key |-> k] :
        f \in Faults, e \in BOOLEAN, p \in PageLists, k \in Passwords}

\* an unencrypted document has no password: one representative key
Files ==
    {[filename |-> n, bytes |-> b, doc |-> d] :
        n \in Filenames, b \in Buffers,
        d \in {x \in Docs : x.encrypted \/ x.key = "alpha"}}

NoDoc == [fault |-> "none", encrypted |-> FALSE, pages |-> <<>>, key |-> "alpha"]
NoFile == [filename |-> "a.pdf", bytes |-> <<>>, doc |-> NoDoc]
NoReader == [doc |-> NoDoc, decrypted |-> FALSE]

\* the codec raises in call c on document d
Raises(d, c) == d.fault = c

\* malformed input: the codec raises at some step on it
Malformed(f) == f.doc.fault # "none"

\* PyPDF2.PdfReader(io.BytesIO(pdf_content))
PdfReader(content) == [doc |-> content.doc, decrypted |-> FALSE]

\* pdf_reader.is_encrypted
is_encrypted(reader) == reader.doc.encrypted

\* pdf_reader.pages
Pages(reader) == reader.doc.pages

\* the result of decrypt() ignored: every password passes
DecryptIgnored(reader, password) == TRUE

\* pdf_reader.decrypt(password): truthy when the codec accepts the password
Decrypt(reader, password) == password = reader.doc.key

\* pdf_writer.write(buffer); buffer.getvalue(): a header, then a byte per page
WriterBytes(pages) == <<37, 80>> \o pages

(***************************************************************************)
(* Exceptions and responses.  An exception is HTTPException (with its      *)
(* status code) or another Exception raised by the codec; FastAPI turns a  *)
(* returned dict into a 200 response and an HTTPException leaving the      *)
(* handler into a response of its status code whose body is {detail}.      *)
(***************************************************************************)
CodecError(call) ==
    [kind |-> "Exception", status_code |-> 0, detail |-> <<call>>]

\* raise HTTPException(status_code=400, detail="Invalid password. ...")
InvalidPassword ==
    [kind |-> "HTTPException", status_code |-> StatusBadRequest,
     detail |-> <<"Invalid password. Could not decrypt the PDF.">>]

\* a handler without the `except HTTPException: raise` clause
DecryptExceptAll500(e) ==
    [kind |-> "HTTPException", status_code |-> StatusServerError,
     detail |-> <<"Internal server error during PDF decryption: ">> \o e.detail]

\* decrypt_pdf's except clauses: HTTPException is re-raised, the rest is 500
DecryptExcept(e) ==
    IF e.kind = "HTTPException" THEN e
    ELSE [kind |-> "HTTPException", status_code |-> StatusServerError,
          detail |-> <<"Internal server error during PDF decryption: ">> \o e.detail]

\* an except clause that blames the client
CheckExceptAs400(e) ==
    [kind |-> "HTTPException", status_code |-> StatusBadRequest,
     detail |-> <<"Error checking PDF encryption: ">> \o e.detail]

\* check_pdf_encryption's except clause: every Exception is 500
CheckExcept(e) ==
    [kind |-> "HTTPException", status_code |-> StatusServerError,
     detail |-> <<"Error checking PDF encryption: ">> \o e.detail]

\* the response FastAPI sends for an HTTPException that leaves the handler
HttpError(e) == [status_code |-> e.status_code, body |-> [detail |-> e.detail]]

\* the response FastAPI sends for a returned dict
HttpOk(body) == [status_code |-> StatusOk, body |-> body]

NoResponse == [status_code |-> 0, body |-> [detail |-> <<>>]]

\* the unencrypted path re-serialising the document instead of echoing it
NotEncryptedBodyRewritten(content, reader) ==
    [success |-> TRUE,
     decrypted_base64 |-> B64Encode(WriterBytes(Pages(reader))),
     page_count |-> Len(Pages(reader)),
     file_size |-> Len(content.bytes),
     was_encrypted |-> FALSE,
     message |-> "PDF was not encrypted"]

\* the dict returned for an unencrypted document
NotEncryptedBody(content, reader) ==
    [success |-> TRUE,
     decrypted_base64 |-> B64Encode(content.bytes),
     page_count |-> Len(Pages(reader)),
     file_size |-> Len(content.bytes),
     was_encrypted |-> FALSE,
     message |-> "PDF was not encrypted"]

\* file_size reporting the uploaded size instead of the rewritten one
DecryptedBodyOriginalSize(content, count, decrypted_bytes) ==
    [success |-> TRUE,
     decrypted_base64 |-> B64Encode(decrypted_bytes),
     page_count |-> count,
     file_size |-> Len(content.bytes),
     original_file_size |-> Len(content.bytes),
     was_encrypted |-> TRUE,
     message |-> "PDF decrypted successfully"]

\* the dict returned for a decrypted document
DecryptedBody(content, count, decrypted_bytes) ==
    [success |-> TRUE,
     decrypted_base64 |-> B64Encode(decrypted_bytes),
     page_count |-> count,
     file_size |-> Len(decrypted_bytes),
     original_file_size |-> Len(content.bytes),
     was_encrypted |-> TRUE,
     message |-> "PDF decrypted successfully"]

\* a page count reported for encrypted documents too
CheckPageCountAlways(reader) == Len(Pages(reader))

\* page_count = len(pdf_reader.pages) if not is_encrypted else None
CheckPageCount(reader) ==
    IF ~is_encrypted(reader) THEN Len(Pages(reader)) ELSE None

\* the dict returned by check_pdf_encryption
CheckBody(content, reader) ==
    [is_encrypted |-> is_encrypted(reader),
     page_count |-> CheckPageCount(reader),
     file_size |-> Len(content.bytes),
     filename |-> content.filename]

\* a loop that stops one page early
LoopContinuesShort(num, count) == num < count - 1

\* for page_num in range(page_count): another iteration follows
LoopContinues(num, count) == num < count

(***************************************************************************)
(* State.  pc, request, response, sent and calls belong to a request slot; *)
(* pdf_content, pdf_reader, pdf_writer, page_count and page_num are the    *)
(* handler's local variables, one frame per invocation.                    *)
(***************************************************************************)
VARIABLES
    pc,           \* where each request's handler stands
    request,      \* the request being served: endpoint, file, password
    pdf_content,  \* bytes read from the upload
    pdf_reader,   \* the PdfReader
    pdf_writer,   \* pages added to the PdfWriter
    page_count,   \* len(pdf_reader.pages) on the decrypted path
    page_num,     \* loop variable of the copy loop
    calls,        \* codec operations invoked while serving the request
    response,     \* the response sent
    sent,         \* how many responses were sent for the request
    buffer,       \* SpecCodec: a byte buffer
    encoded,      \* SpecCodec: its base64 text
    decoded,      \* SpecCodec: the text decoded again
    stage         \* SpecCodec: "raw", "encoded" or "decoded"

locals == <<pdf_content, pdf_reader, pdf_writer, page_count, page_num>>
slot == <<pc, request, calls, response, sent>>
codec == <<buffer, encoded, decoded, stage>>
vars == <<pc, request, pdf_content, pdf_reader, pdf_writer, page_count,
          page_num, calls, response, sent, buffer, encoded, decoded, stage>>

NoCalls == [parse |-> 0, decrypt |-> 0, write |-> 0]
NoRequest == [endpoint |-> "none", file |-> NoFile, password |-> "alpha"]

\* locals kept in one module-level namespace shared by every invocation
FrameShared(r) == 1

\* the frame of invocation r: Python gives each call its own locals
Frame(r) == r

NoPassword == ""

DecryptRequests(F) ==
    {[endpoint |-> "decrypt", file |-> f, password |-> p] : f \in F, p \in Passwords}

CheckRequests(F) ==
    {[endpoint |-> "check", file |-> f, password |-> NoPassword] : f \in F}

Init ==
    /\ pc = [r \in Requests |-> "idle"]
    /\ request = [r \in Requests |-> NoRequest]
    /\ pdf_content = [r \in Requests |-> NoFile]
    /\ pdf_reader = [r \in Requests |-> NoReader]
    /\ pdf_writer = [r \in Requests |-> <<>>]
    /\ page_count = [r \in Requests |-> 0]
    /\ page_num = [r \in Requests |-> 0]
    /\ calls = [r \in Requests |-> NoCalls]
    /\ response = [r \in Requests |-> NoResponse]
    /\ sent = [r \in Requests |-> 0]
    /\ buffer = <<>>
    /\ encoded = <<>>
    /\ decoded = <<>>
    /\ stage = "off"

\* the handler returns or raises: FastAPI sends resp and the handler is over
Respond(r, resp) ==
    /\ pc' = [pc EXCEPT ![r] = "done"]
    /\ response' = [response EXCEPT ![r] = resp]
    /\ sent' = [sent EXCEPT ![r] = @ + 1]

Goto(r, label) ==
    /\ pc' = [pc EXCEPT ![r] = label]
    /\ UNCHANGED <<response, sent>>

\* an except clause that swallows the exception and starts the handler over
DecryptFailRetry(r, e) == Goto(r, "parse")

\* exception e raised in decrypt_pdf's try block
DecryptFail(r, e) == Respond(r, HttpError(DecryptExcept(e)))

\* exception e raised in check_pdf_encryption's try block
CheckFail(r, e) == Respond(r, HttpError(CheckExcept(e)))

\* a request arrives: FastAPI binds file (and password) and calls the handler
Receive(r, F) ==
    /\ pc[r] = "idle"
    /\ \E q \in DecryptRequests(F) \cup CheckRequests(F) :
          request' = [request EXCEPT ![r] = q]
    /\ pc' = [pc EXCEPT ![r] = "read"]
    /\ UNCHANGED <<locals, calls, response, sent, codec>>

(***************************************************************************)
(* decrypt_pdf                                                             *)
(***************************************************************************)
\* pdf_content = await file.read()
DecryptRead(r) ==
    /\ pc[r] = "read"
    /\ request[r].endpoint = "decrypt"
    /\ pdf_content' = [pdf_content EXCEPT ![Frame(r)] = request[r].file]
    /\ Goto(r, "parse")
    /\ UNCHANGED <<request, pdf_reader, pdf_writer, page_count, page_num, calls, codec>>

\* pdf_reader = PyPDF2.PdfReader(io.BytesIO(pdf_content))
DecryptParse(r) ==
    /\ pc[r] = "parse"
    /\ request[r].endpoint = "decrypt"
    /\ calls' = [calls EXCEPT ![r].parse = @ + 1]
    /\ IF Raises(pdf_content[Frame(r)].doc, "parse")
       THEN /\ DecryptFail(r, CodecError("parse"))
            /\ UNCHANGED pdf_reader
       ELSE /\ pdf_reader' = [pdf_reader EXCEPT ![Frame(r)] = PdfReader(pdf_content[Frame(r)])]
            /\ Goto(r, "test")
    /\ UNCHANGED <<request, pdf_content, pdf_writer, page_count, page_num, codec>>

\* if not pdf_reader.is_encrypted: return the original content
DecryptTest(r) ==
    /\ pc[r] = "test"
    /\ request[r].endpoint = "decrypt"
    /\ LET reader == pdf_reader[Frame(r)]
           content == pdf_content[Frame(r)]
       IN  IF Raises(reader.doc, "is_encrypted")
           THEN DecryptFail(r, CodecError("is_encrypted"))
           ELSE IF ~is_encrypted(reader)
           THEN IF Raises(reader.doc, "pages")
                THEN DecryptFail(r, CodecError("pages"))
                ELSE Respond(r, HttpOk(NotEncryptedBody(content, reader)))
           ELSE Goto(r, "decrypt")
    /\ UNCHANGED <<request, locals, calls, codec>>

\* if not pdf_reader.decrypt(password): raise HTTPException(400)
DecryptDecrypt(r) ==
    /\ pc[r] = "decrypt"
    /\ calls' = [calls EXCEPT ![r].decrypt = @ + 1]
    /\ LET reader == pdf_reader[Frame(r)]
       IN  IF Raises(reader.doc, "decrypt")
           THEN /\ DecryptFail(r, CodecError("decrypt"))
                /\ UNCHANGED pdf_reader
           ELSE IF ~Decrypt(reader, request[r].password)
           THEN /\ DecryptFail(r, InvalidPassword)
                /\ UNCHANGED pdf_reader
           ELSE /\ pdf_reader' = [pdf_reader EXCEPT ![Frame(r)].decrypted = TRUE]
                /\ Goto(r, "count")
    /\ UNCHANGED <<request, pdf_content, pdf_writer, page_count, page_num, codec>>

\* pdf_writer = PyPDF2.PdfWriter(); page_count = len(pdf_reader.pages)
DecryptCount(r) ==
    /\ pc[r] = "count"
    /\ LET reader == pdf_reader[Frame(r)]
       IN  IF Raises(reader.doc, "pages")
           THEN /\ DecryptFail(r, CodecError("pages"))
                /\ UNCHANGED <<pdf_writer, page_count, page_num>>
           ELSE /\ pdf_writer' = [pdf_writer EXCEPT ![Frame(r)] = <<>>]
                /\ page_count' = [page_count EXCEPT ![Frame(r)] = Len(Pages(reader))]
                /\ page_num' = [page_num EXCEPT ![Frame(r)] = 0]
                /\ Goto(r, "copy")
    /\ UNCHANGED <<request, pdf_content, pdf_reader, calls, codec>>

\* for page_num in range(page_count): pdf_writer.add_page(pdf_reader.pages[page_num])
DecryptCopy(r) ==
    /\ pc[r] = "copy"
    /\ LET reader == pdf_reader[Frame(r)]
           num == page_num[Frame(r)]
       IN  IF LoopContinues(num, page_count[Frame(r)])
           THEN IF Raises(reader.doc, "add_page")
                THEN /\ DecryptFail(r, CodecError("add_page"))
                     /\ UNCHANGED <<pdf_writer, page_num>>
                ELSE /\ pdf_writer' = [pdf_writer EXCEPT ![Frame(r)] =
                                          Append(@, Pages(reader)[num + 1])]
                     /\ page_num' = [page_num EXCEPT ![Frame(r)] = num + 1]
                     /\ Goto(r, "copy")
           ELSE /\ Goto(r, "write")
                /\ UNCHANGED <<pdf_writer, page_num>>
    /\ UNCHANGED <<request, pdf_content, pdf_reader, page_count, calls, codec>>

\* pdf_writer.write(decrypted_buffer); encode; return the decrypted document
DecryptWrite(r) ==
    /\ pc[r] = "write"
    /\ calls' = [calls EXCEPT ![r].write = @ + 1]
    /\ LET reader == pdf_reader[Frame(r)]
           content == pdf_content[Frame(r)]
           decrypted_bytes == WriterBytes(pdf_writer[Frame(r)])
       IN  IF Raises(reader.doc, "write")
           THEN DecryptFail(r, CodecError("write"))
           ELSE Respond(r, HttpOk(DecryptedBody(content, page_count[Frame(r)],
                                                decrypted_bytes)))
    /\ UNCHANGED <<request, locals, codec>>

(***************************************************************************)
(* check_pdf_encryption                                                    *)
(***************************************************************************)
\* pdf_content = await file.read()
CheckRead(r) ==
    /\ pc[r] = "read"
    /\ request[r].endpoint = "check"
    /\ pdf_content' = [pdf_content EXCEPT ![Frame(r)] = request[r].file]
    /\ Goto(r, "parse")
    /\ UNCHANGED <<request, pdf_reader, pdf_writer, page_count, page_num, calls, codec>>

\* pdf_reader = PyPDF2.PdfReader(io.BytesIO(pdf_content))
CheckParse(r) ==
    /\ pc[r] = "parse"
    /\ request[r].endpoint = "check"
    /\ calls' = [calls EXCEPT ![r].parse = @ + 1]
    /\ IF Raises(pdf_content[Frame(r)].doc, "parse")
       THEN /\ CheckFail(r, CodecError("parse"))
            /\ UNCHANGED pdf_reader
       ELSE /\ pdf_reader' = [pdf_reader EXCEPT ![Frame(r)] = PdfReader(pdf_content[Frame(r)])]
            /\ Goto(r, "inspect")
    /\ UNCHANGED <<request, pdf_content, pdf_writer, page_count, page_num, codec>>

\* is_encrypted = pdf_reader.is_encrypted; page_count = ...; return
CheckInspect(r) ==
    /\ pc[r] = "inspect"
    /\ LET reader == pdf_reader[Frame(r)]
           content == pdf_content[Frame(r)]
       IN  IF Raises(reader.doc, "is_encrypted")
           THEN CheckFail(r, CodecError("is_encrypted"))
           ELSE IF ~is_encrypted(reader) /\ Raises(reader.doc, "pages")
           THEN CheckFail(r, CodecError("pages"))
           ELSE Respond(r, HttpOk(CheckBody(content, reader)))
    /\ UNCHANGED <<request, locals, calls, codec>>

\* the response is delivered: the invocation's frame is gone, the slot is free
Close(r) ==
    /\ pc[r] = "done"
    /\ pc' = [pc EXCEPT ![r] = "idle"]
    /\ request' = [request EXCEPT ![r] = NoRequest]
    /\ pdf_content' = [pdf_content EXCEPT ![Frame(r)] = NoFile]
    /\ pdf_reader' = [pdf_reader EXCEPT ![Frame(r)] = NoReader]
    /\ pdf_writer' = [pdf_writer EXCEPT ![Frame(r)] = <<>>]
    /\ page_count' = [page_count EXCEPT ![Frame(r)] = 0]
    /\ page_num' = [page_num EXCEPT ![Frame(r)] = 0]
    /\ calls' = [calls EXCEPT ![r] = NoCalls]
    /\ response' = [response EXCEPT ![r] = NoResponse]
    /\ sent' = [sent EXCEPT ![r] = 0]
    /\ UNCHANGED codec

\* the steps of the handler serving request r
Handler(r) ==
    \/ DecryptRead(r)
    \/ DecryptParse(r)
    \/ DecryptTest(r)
    \/ DecryptDecrypt(r)
    \/ DecryptCount(r)
    \/ DecryptCopy(r)
    \/ DecryptWrite(r)
    \/ CheckRead(r)
    \/ CheckParse(r)
    \/ CheckInspect(r)

(***************************************************************************)
(* Spec: requests served one after another, over every file of Files.      *)
(***************************************************************************)
Next ==
    \/ Receive(1, Files)
    \/ Handler(1)
    \/ Close(1)

Spec == Init /\ [][Next]_vars

\* the event loop runs a handler that can take a step
FairSpec == Spec /\ WF_vars(Handler(1))

(***************************************************************************)
(* SpecConc: NumRequests requests in flight at once, their steps           *)
(* interleaved, over a few files: one byte, one page, well-formed or not   *)
(* a PDF at all, encrypted or not.                                         *)
(***************************************************************************)
ConcFiles ==
    {f \in Files :
        /\ f.bytes \in {<<0>>, <<255>>}
        /\ f.doc.pages = <<1>>
        /\ f.doc.key = "alpha"
        /\ f.doc.fault \in {"none", "parse"}}

NextConc ==
    \E r \in Requests :
        \/ Receive(r, ConcFiles)
        \/ Handler(r)
        \/ Close(r)

SpecConc == Init /\ [][NextConc]_vars

(***************************************************************************)
(* The handlers as functions of one request, run start to end with nothing *)
(* else going on.                                                          *)
(***************************************************************************)
RECURSIVE CopyPages(_, _, _, _)
\* the copy loop, from iteration num on
CopyPages(reader, num, count, writer) ==
    IF LoopContinues(num, count)
    THEN CopyPages(reader, num + 1, count, Append(writer, Pages(reader)[num + 1]))
    ELSE writer

decrypt_pdf(content, password) ==
    LET reader == PdfReader(content)
        doc == content.doc
        count == Len(Pages(reader))
        raised(call) == HttpError(DecryptExcept(CodecError(call)))
    IN  IF Raises(doc, "parse") THEN raised("parse")
        ELSE IF Raises(doc, "is_encrypted") THEN raised("is_encrypted")
        ELSE IF ~is_encrypted(reader) THEN
            IF Raises(doc, "pages") THEN raised("pages")
            ELSE HttpOk(NotEncryptedBody(content, reader))
        ELSE IF Raises(doc, "decrypt") THEN raised("decrypt")
        ELSE IF ~Decrypt(reader, password) THEN HttpError(DecryptExcept(InvalidPassword))
        ELSE IF Raises(doc, "pages") THEN raised("pages")
        ELSE IF LoopContinues(0, count) /\ Raises(doc, "add_page") THEN raised("add_page")
        ELSE IF Raises(doc, "write") THEN raised("write")
        ELSE HttpOk(DecryptedBody(content, count,
                                  WriterBytes(CopyPages(reader, 0, count, <<>>))))

check_pdf_encryption(content) ==
    LET reader == PdfReader(content)
        doc == content.doc
        raised(call) == HttpError(CheckExcept(CodecError(call)))
    IN  IF Raises(doc, "parse") THEN raised("parse")
        ELSE IF Raises(doc, "is_encrypted") THEN raised("is_encrypted")
        ELSE IF ~is_encrypted(reader) /\ Raises(doc, "pages") THEN raised("pages")
        ELSE HttpOk(CheckBody(content, reader))

\* the response to request q served alone
Alone(q) ==
    IF q.endpoint = "decrypt" THEN decrypt_pdf(q.file, q.password)
    ELSE check_pdf_encryption(q.file)

(***************************************************************************)
(* SpecCodec: the transport encoding on its own, over byte buffers of up   *)
(* to MaxLen bytes and the buffers the writer produces.                    *)
(***************************************************************************)
CodecByteVals == {0, 1, 77, 128, 254, 255}

CodecBuffers ==
    SeqsUpTo(CodecByteVals, MaxLen) \cup {WriterBytes(p) : p \in PageLists}

InitCodec ==
    /\ pc = [r \in Requests |-> "idle"]
    /\ request = [r \in Requests |-> NoRequest]
    /\ pdf_content = [r \in Requests |-> NoFile]
    /\ pdf_reader = [r \in Requests |-> NoReader]
    /\ pdf_writer = [r \in Requests |-> <<>>]
    /\ page_count = [r \in Requests |-> 0]
    /\ page_num = [r \in Requests |-> 0]
    /\ calls = [r \in Requests |-> NoCalls]
    /\ response = [r \in Requests |-> NoResponse]
    /\ sent = [r \in Requests |-> 0]
    /\ buffer \in CodecBuffers
    /\ encoded = <<>>
    /\ decoded = <<>>
    /\ stage = "raw"

\* decrypted_base64 = base64.b64encode(buffer).decode('utf-8')
Encode ==
    /\ stage = "raw"
    /\ encoded' = B64Encode(buffer)
    /\ stage' = "encoded"
    /\ UNCHANGED <<slot, locals, buffer, decoded>>

\* the caller decodes decrypted_base64
Decode ==
    /\ stage = "encoded"
    /\ decoded' = B64Decode(encoded)
    /\ stage' = "decoded"
    /\ UNCHANGED <<slot, locals, buffer, encoded>>

NextCodec == Encode \/ Decode

SpecCodec == InitCodec /\ [][NextCodec]_vars

(***************************************************************************)
(* Properties.                                                             *)
(***************************************************************************)
\* the codec calls the handler makes for request q when none of them raises
CallsOnPath(q) ==
    LET doc == q.file.doc
    IN  IF q.endpoint = "check" THEN
            {"parse", "is_encrypted"} \cup (IF doc.encrypted THEN {} ELSE {"pages"})
        ELSE IF ~doc.encrypted THEN {"parse", "is_encrypted", "pages"}
        ELSE IF q.password # doc.key THEN {"parse", "is_encrypted", "decrypt"}
        ELSE {"parse", "is_encrypted", "decrypt", "pages", "write"}
             \cup (IF doc.pages = <<>> THEN {} ELSE {"add_page"})

\* the input of q is malformed for its endpoint: the codec raises while serving q
Raising(q) == q.file.doc.fault \in CallsOnPath(q)

Done(r) == pc[r] = "done"
IsDecrypt(r) == request[r].endpoint = "decrypt"
IsCheck(r) == request[r].endpoint = "check"
Succeeded(r) == Done(r) /\ response[r].status_code = StatusOk
HasPayload(r) == "decrypted_base64" \in DOMAIN response[r].body

\* C1: a decrypt request for an unencrypted PDF (the codec raises nowhere on
\* it), whatever the password, ends in a success response with
\* was_encrypted = false whose decrypted_base64 decodes to exactly the
\* uploaded bytes; the codec's decrypt and write are never invoked for an
\* unencrypted document.
C1_UnencryptedEcho ==
    \A r \in Requests :
        (IsDecrypt(r) /\ ~request[r].file.doc.encrypted) =>
            /\ calls[r].decrypt = 0
            /\ calls[r].write = 0
            /\ (Done(r) /\ ~Raising(request[r])) =>
                  /\ response[r].status_code = StatusOk
                  /\ response[r].body.success
                  /\ response[r].body.was_encrypted = FALSE
                  /\ B64Decode(response[r].body.decrypted_base64)
                        = request[r].file.bytes

C1_Witness ==
    \E r \in Requests :
        /\ IsDecrypt(r) /\ Succeeded(r)
        /\ ~request[r].file.doc.encrypted
        /\ request[r].password = "beta"
        /\ Len(request[r].file.bytes) = 2
        /\ Len(request[r].file.doc.pages) = 1
        /\ B64Decode(response[r].body.decrypted_base64) = request[r].file.bytes

\* C2: a decrypt request for an encrypted PDF whose password the codec
\* accepts ends in success = true, was_encrypted = true and page_count equal
\* to the document's number of pages, the writer holding every page of the
\* source once, in order, and the payload being the writer's output.
C2_DecryptedPages ==
    \A r \in Requests :
        (/\ IsDecrypt(r) /\ Done(r)
         /\ request[r].file.doc.encrypted
         /\ request[r].password = request[r].file.doc.key
         /\ ~Raising(request[r])) =>
            /\ response[r].status_code = StatusOk
            /\ response[r].body.success
            /\ response[r].body.was_encrypted
            /\ response[r].body.page_count = Len(request[r].file.doc.pages)
            /\ pdf_writer[Frame(r)] = request[r].file.doc.pages
            /\ B64Decode(response[r].body.decrypted_base64)
                  = WriterBytes(request[r].file.doc.pages)

C2_Witness ==
    \E r \in Requests :
        /\ IsDecrypt(r) /\ Succeeded(r)
        /\ request[r].file.doc.encrypted
        /\ response[r].body.was_encrypted
        /\ response[r].body.page_count = 2
        /\ pdf_writer[Frame(r)] = <<1, 2>>

\* C3: when the codec rejects the password of an encrypted document, the
\* response has status 400, carries no decrypted_base64, and nothing was
\* added to or written by the page writer.
C3_WrongPassword ==
    \A r \in Requests :
        (/\ IsDecrypt(r) /\ Done(r)
         /\ request[r].file.doc.encrypted
         /\ request[r].file.doc.fault \notin {"parse", "is_encrypted", "decrypt"}
         /\ request[r].password # request[r].file.doc.key) =>
            /\ calls[r].decrypt = 1
            /\ response[r].status_code = StatusBadRequest
            /\ ~HasPayload(r)
            /\ pdf_writer[Frame(r)] = <<>>
            /\ calls[r].write = 0

C3_Witness ==
    \E r \in Requests :
        /\ IsDecrypt(r) /\ Done(r)
        /\ request[r].file.doc.encrypted
        /\ request[r].file.doc.fault = "none"
        /\ request[r].file.doc.pages # <<>>
        /\ request[r].password # request[r].file.doc.key
        /\ calls[r].decrypt = 1
        /\ response[r].status_code = StatusBadRequest

\* C4: a check request never invokes the codec's decrypt and has no
\* password; its success response reports is_encrypted, with page_count
\* null for an encrypted document and the document's page count otherwise,
\* and an encrypted document the codec parses does get that response.
C4_InspectOnly ==
    \A r \in Requests :
        IsCheck(r) =>
            /\ calls[r].decrypt = 0
            /\ request[r].password = NoPassword
            /\ (Done(r) /\ ~Raising(request[r])) => Succeeded(r)
            /\ Succeeded(r) =>
                  /\ response[r].body.is_encrypted = request[r].file.doc.encrypted
                  /\ request[r].file.doc.encrypted =>
                        response[r].body.page_count = None
                  /\ ~request[r].file.doc.encrypted =>
                        response[r].body.page_count = Len(request[r].file.doc.pages)

C4_Witness ==
    \E r \in Requests :
        /\ IsCheck(r) /\ Succeeded(r)
        /\ request[r].file.doc.encrypted
        /\ request[r].file.doc.pages # <<>>
        /\ response[r].body.is_encrypted
        /\ response[r].body.page_count = None

\* C5: a failure response of decrypt_pdf has status 400 exactly when the
\* codec was asked to decrypt and rejected the password, and status 500 for
\* every other failure; the 400 is the HTTPException raised for the wrong
\* password, unchanged.
C5_FailureStatus ==
    \A r \in Requests :
        (IsDecrypt(r) /\ Done(r) /\ response[r].status_code # StatusOk) =>
            LET rejected ==
                    /\ calls[r].decrypt = 1
                    /\ request[r].file.doc.fault # "decrypt"
                    /\ request[r].password # request[r].file.doc.key
            IN  /\ response[r].status_code \in {StatusBadRequest, StatusServerError}
                /\ response[r].status_code = StatusBadRequest <=> rejected
                /\ rejected => response[r] = HttpError(InvalidPassword)
                /\ ~rejected => Raising(request[r])

C5_Witness ==
    \E r \in Requests :
        /\ IsDecrypt(r) /\ Done(r)
        /\ calls[r].decrypt = 1
        /\ request[r].file.doc.fault = "write"
        /\ request[r].password # request[r].file.doc.key
        /\ response[r] = HttpError(InvalidPassword)

\* C6: a request to either endpoint whose input makes the codec raise
\* eventually ends with exactly one response, of status 500.
C6_MalformedEnds500 ==
    \A r \in Requests :
        (pc[r] = "read" /\ Raising(request[r])) ~>
            (Done(r) /\ sent[r] = 1 /\ response[r].status_code = StatusServerError)

C6_Witness ==
    \E r \in Requests :
        /\ IsCheck(r) /\ Done(r)
        /\ request[r].file.doc.fault = "parse"
        /\ sent[r] = 1
        /\ response[r].status_code = StatusServerError

\* the fields of a complete body, by endpoint and path
SuccessFields(r) ==
    IF IsCheck(r) THEN {"is_encrypted", "page_count", "file_size", "filename"}
    ELSE {"success", "decrypted_base64", "page_count", "file_size",
          "was_encrypted", "message"}
         \cup (IF request[r].file.doc.encrypted THEN {"original_file_size"} ELSE {})

C7_State ==
    \A r \in Requests :
        /\ sent[r] = (IF Done(r) THEN 1 ELSE 0)
        /\ calls[r].parse <= 1 /\ calls[r].decrypt <= 1 /\ calls[r].write <= 1
        /\ Done(r) =>
              IF response[r].status_code = StatusOk
              THEN DOMAIN response[r].body = SuccessFields(r)
              ELSE DOMAIN response[r].body = {"detail"}

C7_Step ==
    \A r \in Requests :
        Done(r) =>
            \/ pc'[r] = "idle"
            \/ /\ pc'[r] = "done"
               /\ calls'[r] = calls[r]
               /\ response'[r] = response[r]
               /\ sent'[r] = sent[r]

\* C7: every request gets exactly one response, none before its handler
\* ends; the response is a complete success body or an error with only a
\* detail; parse, decrypt and write are each invoked at most once per
\* request, and nothing of the request runs after its response.
C7_OneResponseNoRetry == [](C7_State) /\ [][C7_Step]_vars

C7_Witness ==
    \E r \in Requests :
        /\ IsDecrypt(r) /\ Done(r)
        /\ request[r].file.doc.fault = "parse"
        /\ calls[r] = [parse |-> 1, decrypt |-> 0, write |-> 0]
        /\ sent[r] = 1
        /\ DOMAIN response[r].body = {"detail"}

\* C8: under every interleaving of concurrent requests, the response to a
\* request is the response the same endpoint, file and password get when
\* served alone.
C8_Independent ==
    \A r \in Requests : Done(r) => response[r] = Alone(request[r])

C8_Witness ==
    \E r, q \in Requests :
        /\ r # q
        /\ Done(r) /\ Succeeded(r)
        /\ pc[q] = "parse"
        /\ request[q].file # request[r].file
        /\ pdf_content[Frame(q)] = request[q].file
        /\ response[r] = Alone(request[r])

\* C9: decoding the base64 text of a byte buffer gives the buffer back,
\* same length and same bytes, for uploaded buffers and writer outputs.
C9_RoundTrip ==
    stage = "decoded" =>
        /\ Len(decoded) = Len(buffer)
        /\ decoded = buffer

C9_Witness ==
    /\ stage = "decoded"
    /\ Len(buffer) = 2
    /\ encoded[4] = Pad
    /\ decoded = buffer

\* C10: in a success response of decrypt_pdf, file_size is the number of
\* bytes decrypted_base64 decodes to: the uploaded length when
\* was_encrypted = false; the length of the writer's output when
\* was_encrypted = true, original_file_size then being the uploaded length.
C10_FileSize ==
    \A r \in Requests :
        (IsDecrypt(r) /\ Succeeded(r)) =>
            LET body == response[r].body
            IN  /\ body.file_size = Len(B64Decode(body.decrypted_base64))
                /\ ~body.was_encrypted =>
                      body.file_size = Len(request[r].file.bytes)
                /\ body.was_encrypted =>
                      /\ body.file_size = Len(WriterBytes(pdf_writer[Frame(r)]))
                      /\ body.original_file_size = Len(request[r].file.bytes)

C10_Witness ==
    \E r \in Requests :
        /\ IsDecrypt(r) /\ Succeeded(r)
        /\ response[r].body.was_encrypted
        /\ response[r].body.file_size = 4
        /\ response[r].body.original_file_size = 1

====
